---- MODULE Spec2Model ----
(***************************************************************************)
(* Model of the transaction processor: the fixed-point Balance type        *)
(* (src/decimal.rs, src/op_impls.rs), the identifier parsers               *)
(* (src/serde_impls.rs), the per-client ledger AccountStates::process and  *)
(* summary (src/lib.rs) and the csv driver summaries_from_csv / main.      *)
(*                                                                         *)
(* Strings are sequences of one-character strings.  A Balance is the       *)
(* BigUint count of ten-thousandths, an unbounded natural number.          *)
(***************************************************************************)
EXTENDS Integers, Sequences, FiniteSets, TLC

VARIABLES accounts, action, pc, result, output, nread,
          used, resolved, arrival, deposited,
          input, parsed, rendered, ppc

vars == <<accounts, action, pc, result, output, nread,
          used, resolved, arrival, deposited, input, parsed, rendered, ppc>>

ledgerVars == <<accounts, action, pc, result, output, nread,
                used, resolved, arrival, deposited>>

amountVars == <<input, parsed, rendered, ppc>>

----
(* Bounds of the explored inputs *)

MaxAmount == 2
MaxEvents == 5
MaxLen == 4
MaxIntegral == 2
MaxFraction == 5

----
(* Characters and strings *)

Digits == <<"0", "1", "2", "3", "4", "5", "6", "7", "8", "9">>

DigitSet == {Digits[i] : i \in 1..10}

Whitespace == {" ", "\t"}

DigitVal(c) == (CHOOSE i \in 1..10 : Digits[i] = c) - 1

\* s[from..to-1] with 1-based TLA+ positions from+1 .. to (Rust s[from..to])
Slice(s, from, to) == [i \in 1..(to - from) |-> s[from + i]]

\* str::find: 0-based index of the first character satisfying the set, or -1
FindIn(s, set) ==
  IF \E i \in 1..Len(s) : s[i] \in set
  THEN (CHOOSE i \in 1..Len(s) : s[i] \in set /\ \A j \in 1..(i - 1) : s[j] \notin set) - 1
  ELSE -1

\* str::trim
Trim(s) ==
  IF \A i \in 1..Len(s) : s[i] \in Whitespace
  THEN <<>>
  ELSE LET first == CHOOSE i \in 1..Len(s) :
                      s[i] \notin Whitespace /\ \A j \in 1..(i - 1) : s[j] \in Whitespace
           last == CHOOSE i \in 1..Len(s) :
                      s[i] \notin Whitespace /\ \A j \in (i + 1)..Len(s) : s[j] \in Whitespace
       IN  Slice(s, first - 1, last)

RECURSIVE DigitsValue(_)
DigitsValue(s) ==
  IF s = <<>> THEN 0
  ELSE 10 * DigitsValue(SubSeq(s, 1, Len(s) - 1)) + DigitVal(s[Len(s)])

\* BigUint::from_str on a string: an unbounded decimal literal
ParseBigUint(s) ==
  IF s = <<>> \/ \E i \in 1..Len(s) : s[i] \notin DigitSet
  THEN [ok |-> FALSE, val |-> 0]
  ELSE [ok |-> TRUE, val |-> DigitsValue(s)]

\* the decimal numeral of a natural number (Display of an unsigned integer)
RECURSIVE DecStr(_)
DecStr(n) ==
  IF n < 10 THEN <<Digits[n + 1]>>
  ELSE Append(DecStr(n \div 10), Digits[(n % 10) + 1])

\* {:>04}: zero-padded on the left to width 4
RECURSIVE ZeroPad4(_)
ZeroPad4(s) == IF Len(s) >= 4 THEN s ELSE ZeroPad4(<<"0">> \o s)

----
(* decimal.rs *)

SCALE == <<1, 10, 100, 1000>>

DecimalError == [ok |-> FALSE, val |-> 0]

FromStrUnscaled(str) ==
  LET s == Trim(str) IN
  IF FindIn(s, {s[i] : i \in 1..Len(s)} \ (DigitSet \cup {"."})) >= 0
  THEN DecimalError
  ELSE LET dp_loc == FindIn(s, {"."}) IN
       IF dp_loc >= 0
       THEN LET integral == ParseBigUint(Slice(s, 0, dp_loc))
                rest == Slice(s, dp_loc + 1, Len(s))
                fractional_part == IF Len(rest) > 4 THEN Slice(rest, 0, 4) ELSE rest
                fractional == IF fractional_part = <<>>
                              THEN 0
                              ELSE ParseBigUint(fractional_part).val
            IN  IF ~integral.ok THEN DecimalError
                ELSE IF FindIn(rest, {"."}) >= 0 THEN DecimalError
                ELSE [ok |-> TRUE, val |-> integral.val * 10000 + fractional]
       ELSE LET dec == ParseBigUint(s)
            IN  IF dec.ok THEN [ok |-> TRUE, val |-> dec.val * 10000] ELSE DecimalError

FromStrPointCheckedAfterCut(str) ==
  LET s == Trim(str) IN
  IF FindIn(s, {s[i] : i \in 1..Len(s)} \ (DigitSet \cup {"."})) >= 0
  THEN DecimalError
  ELSE LET dp_loc == FindIn(s, {"."}) IN
       IF dp_loc >= 0
       THEN LET integral == ParseBigUint(Slice(s, 0, dp_loc))
                rest == Slice(s, dp_loc + 1, Len(s))
                fractional_part == IF Len(rest) > 4 THEN Slice(rest, 0, 4) ELSE rest
                fractional == IF fractional_part = <<>>
                              THEN 0
                              ELSE ParseBigUint(fractional_part).val
                                     * SCALE[(4 - Len(fractional_part)) + 1]
            IN  IF ~integral.ok THEN DecimalError
                ELSE IF FindIn(fractional_part, {"."}) >= 0 THEN DecimalError
                ELSE [ok |-> TRUE, val |-> integral.val * 10000 + fractional]
       ELSE LET dec == ParseBigUint(s)
            IN  IF dec.ok THEN [ok |-> TRUE, val |-> dec.val * 10000] ELSE DecimalError

\* impl FromStr for Balance
FromStr(str) ==
  LET s == Trim(str) IN
  IF FindIn(s, {s[i] : i \in 1..Len(s)} \ (DigitSet \cup {"."})) >= 0
  THEN DecimalError
  ELSE LET dp_loc == FindIn(s, {"."}) IN
       IF dp_loc >= 0
       THEN LET integral == ParseBigUint(Slice(s, 0, dp_loc))
                rest == Slice(s, dp_loc + 1, Len(s))
                fractional_part == IF Len(rest) > 4 THEN Slice(rest, 0, 4) ELSE rest
                fractional == IF fractional_part = <<>>
                              THEN 0
                              ELSE ParseBigUint(fractional_part).val
                                     * SCALE[(4 - Len(fractional_part)) + 1]
            IN  IF ~integral.ok THEN DecimalError
                ELSE IF FindIn(rest, {"."}) >= 0 THEN DecimalError
                ELSE [ok |-> TRUE, val |-> integral.val * 10000 + fractional]
       ELSE LET dec == ParseBigUint(s)
            IN  IF dec.ok THEN [ok |-> TRUE, val |-> dec.val * 10000] ELSE DecimalError

\* impl Display for Balance
Display(v) ==
  LET fractional == v % 10000
      integral == v \div 10000
  IN  DecStr(integral) \o <<".">> \o ZeroPad4(DecStr(fractional))

----
(* op_impls.rs *)

SubWrapping(a, b) == [some |-> TRUE, val |-> a - b]

\* impl Sub<Balance> for Balance: BigUint::checked_sub
Sub(a, b) == IF a >= b THEN [some |-> TRUE, val |-> a - b] ELSE [some |-> FALSE, val |-> 0]

----
(* serde_impls.rs: ClientId and TransactionId from a text field *)

RECURSIVE StripZeros(_)
StripZeros(s) == IF Len(s) > 1 /\ s[1] = "0" THEN StripZeros(Tail(s)) ELSE s

\* comparison of two decimal numerals without leading zeros
NumeralLeq(a, b) ==
  \/ Len(a) < Len(b)
  \/ /\ Len(a) = Len(b)
     /\ \/ a = b
        \/ \E i \in 1..Len(a) : /\ DigitVal(a[i]) < DigitVal(b[i])
                                /\ \A j \in 1..(i - 1) : a[j] = b[j]

U16Max == <<"6", "5", "5", "3", "5">>

U32Max == <<"4", "2", "9", "4", "9", "6", "7", "2", "9", "5">>

\* v.trim().parse::<uN>(): a decimal literal not above the maximum of the type
ParseUnsigned(v, max) ==
  LET t == Trim(v) IN
  IF t = <<>> \/ \E i \in 1..Len(t) : t[i] \notin DigitSet
  THEN [ok |-> FALSE, val |-> 0]
  ELSE IF NumeralLeq(StripZeros(t), max)
  THEN [ok |-> TRUE, val |-> DigitsValue(StripZeros(t))]
  ELSE [ok |-> FALSE, val |-> 0]

\* Deserialize for ClientId: Visitor::visit_str
ClientIdFromField(v) == ParseUnsigned(v, U16Max)

\* Deserialize for TransactionId: Visitor::visit_str
TransactionIdFromField(v) == ParseUnsigned(v, U32Max)

----
(* lib.rs: the records of the input and their deserialization *)

Variants == {"deposit", "withdrawal", "dispute", "resolve", "chargeback"}

TypeFields == Variants \cup {"transfer"}

\* the client and transaction ids that the well-formed records name
ClientIds == {1, 2}

TransactionIds == {1, 2}

ClientFields == {DecStr(i) : i \in ClientIds} \cup {<<"6", "5", "5", "3", "6">>, <<"x">>}

TxFields ==
  {DecStr(i) : i \in TransactionIds} \cup {<<"4", "2", "9", "4", "9", "6", "7", "2", "9", "6">>}

AmountFields == {DecStr(i) : i \in 1..MaxAmount} \cup {<<>>}

FullRecords == [type : TypeFields, client : ClientFields, tx : TxFields, amount : AmountFields]

\* records of an input whose header lacks the tx or the amount column
ShortRecords ==
  [type : {"deposit", "dispute"}, client : {DecStr(1)}, tx : {DecStr(1)}]
    \cup [type : {"deposit", "dispute"}, client : {DecStr(1)}, amount : {DecStr(1)}]

RawRecords == FullRecords \cup ShortRecords

\* no record at hand: before the first one and after the last one
NoAction == [type |-> "none"]

\* the Err of a record that does not deserialize
ParseError == [type |-> "error"]

\* #[derive(Deserialize)] #[serde(tag = "type", rename_all = "lowercase")] enum Action
Deserialize(r) ==
  LET fail == [ok |-> FALSE, action |-> NoAction] IN
  IF "type" \notin DOMAIN r \/ r.type \notin Variants THEN fail
  ELSE IF "client" \notin DOMAIN r \/ "tx" \notin DOMAIN r THEN fail
  ELSE LET client == ClientIdFromField(r.client)
           transaction == TransactionIdFromField(r.tx)
       IN  IF ~client.ok \/ ~transaction.ok THEN fail
           ELSE IF r.type \in {"deposit", "withdrawal"}
           THEN IF "amount" \notin DOMAIN r THEN fail
                ELSE LET amount == FromStr(r.amount) IN
                     IF ~amount.ok THEN fail
                     ELSE [ok |-> TRUE,
                           action |-> [type |-> r.type, client |-> client.val,
                                       transaction |-> transaction.val,
                                       amount |-> amount.val]]
           ELSE [ok |-> TRUE,
                 action |-> [type |-> r.type, client |-> client.val,
                             transaction |-> transaction.val]]

----
(* lib.rs: AccountState and the arms of AccountStates::process *)

EmptyMap == [t \in {} |-> 0]

\* #[derive(Default)] struct AccountState
DefaultAccount ==
  [transaction_amounts |-> EmptyMap, disputes |-> {}, locked |-> FALSE,
   available |-> 0, held |-> 0]

\* BTreeMap insert of a vacant key
Insert(m, k, v) == [u \in DOMAIN m \cup {k} |-> IF u = k THEN v ELSE m[u]]

\* BTreeMap::remove
Remove(m, k) == [u \in DOMAIN m \ {k} |-> m[u]]

\* self.accounts.entry(client).or_default()
Entry(accts, client) ==
  IF client \in DOMAIN accts THEN accts ELSE Insert(accts, client, DefaultAccount)

DepositArmNoLockCheck(a, transaction, amount) ==
  IF transaction \notin DOMAIN a.transaction_amounts
  THEN [a EXCEPT !.transaction_amounts =
                     Insert(@, transaction, [kind |-> "Deposit", amount |-> amount]),
                 !.available = @ + amount]
  ELSE a

DepositArmOverwrites(a, transaction, amount) ==
  IF a.locked THEN a
  ELSE [a EXCEPT !.transaction_amounts =
                     Insert(@, transaction, [kind |-> "Deposit", amount |-> amount]),
                 !.available = @ + amount]

\* Action::Deposit arm
DepositArm(a, transaction, amount) ==
  IF a.locked THEN a
  ELSE IF transaction \notin DOMAIN a.transaction_amounts
  THEN [a EXCEPT !.transaction_amounts =
                     Insert(@, transaction, [kind |-> "Deposit", amount |-> amount]),
                 !.available = @ + amount]
  ELSE a

WithdrawalArmRefusedRecorded(a, transaction, amount) ==
  IF a.locked THEN a
  ELSE IF transaction \notin DOMAIN a.transaction_amounts
  THEN LET available == Sub(a.available, amount) IN
       IF available.some
       THEN [a EXCEPT !.available = available.val,
                      !.transaction_amounts =
                          Insert(@, transaction, [kind |-> "Withdrawal", amount |-> amount])]
       ELSE [a EXCEPT !.transaction_amounts =
                          Insert(@, transaction, [kind |-> "Withdrawal", amount |-> amount])]
  ELSE a

\* Action::Withdrawal arm
WithdrawalArm(a, transaction, amount) ==
  IF a.locked THEN a
  ELSE IF transaction \notin DOMAIN a.transaction_amounts
  THEN LET available == Sub(a.available, amount) IN
       IF available.some
       THEN [a EXCEPT !.available = available.val,
                      !.transaction_amounts =
                          Insert(@, transaction, [kind |-> "Withdrawal", amount |-> amount])]
       ELSE a
  ELSE a

DisputeArmWithdrawalNotHeld(a, transaction) ==
  IF a.locked THEN a
  ELSE IF transaction \in a.disputes THEN a
  ELSE IF transaction \notin DOMAIN a.transaction_amounts THEN a
  ELSE LET kind == a.transaction_amounts[transaction].kind
           amount == a.transaction_amounts[transaction].amount
       IN  IF kind = "Deposit"
           THEN LET available == Sub(a.available, amount) IN
                IF available.some
                THEN [a EXCEPT !.available = available.val,
                               !.held = @ + amount,
                               !.disputes = @ \cup {transaction}]
                ELSE a
           ELSE [a EXCEPT !.disputes = @ \cup {transaction}]

DisputeArmUnknownInserted(a, transaction) ==
  IF a.locked THEN a
  ELSE IF transaction \in a.disputes THEN a
  ELSE IF transaction \notin DOMAIN a.transaction_amounts
  THEN [a EXCEPT !.disputes = @ \cup {transaction}]
  ELSE LET kind == a.transaction_amounts[transaction].kind
           amount == a.transaction_amounts[transaction].amount
       IN  IF kind = "Deposit"
           THEN LET available == Sub(a.available, amount) IN
                IF available.some
                THEN [a EXCEPT !.available = available.val,
                               !.held = @ + amount,
                               !.disputes = @ \cup {transaction}]
                ELSE a
           ELSE [a EXCEPT !.held = @ + amount, !.disputes = @ \cup {transaction}]

DisputeArmDepositUnchecked(a, transaction) ==
  IF a.locked THEN a
  ELSE IF transaction \in a.disputes THEN a
  ELSE IF transaction \notin DOMAIN a.transaction_amounts THEN a
  ELSE LET kind == a.transaction_amounts[transaction].kind
           amount == a.transaction_amounts[transaction].amount
       IN  IF kind = "Deposit"
           THEN LET available == Sub(a.available, amount) IN
                IF available.some
                THEN [a EXCEPT !.available = available.val,
                               !.held = @ + amount,
                               !.disputes = @ \cup {transaction}]
                ELSE [a EXCEPT !.disputes = @ \cup {transaction}]
           ELSE [a EXCEPT !.held = @ + amount, !.disputes = @ \cup {transaction}]

DisputeArmHeldTwice(a, transaction) ==
  IF a.locked THEN a
  ELSE IF transaction \notin DOMAIN a.transaction_amounts THEN a
  ELSE LET kind == a.transaction_amounts[transaction].kind
           amount == a.transaction_amounts[transaction].amount
       IN  IF kind = "Deposit"
           THEN LET available == Sub(a.available, amount) IN
                IF available.some
                THEN [a EXCEPT !.available = available.val,
                               !.held = @ + amount,
                               !.disputes = @ \cup {transaction}]
                ELSE a
           ELSE [a EXCEPT !.held = @ + amount, !.disputes = @ \cup {transaction}]

\* Action::Dispute arm
DisputeArm(a, transaction) ==
  IF a.locked THEN a
  ELSE IF transaction \in a.disputes THEN a
  ELSE IF transaction \notin DOMAIN a.transaction_amounts THEN a
  ELSE LET kind == a.transaction_amounts[transaction].kind
           amount == a.transaction_amounts[transaction].amount
       IN  IF kind = "Deposit"
           THEN LET available == Sub(a.available, amount) IN
                IF available.some
                THEN [a EXCEPT !.available = available.val,
                               !.held = @ + amount,
                               !.disputes = @ \cup {transaction}]
                ELSE a
           ELSE [a EXCEPT !.held = @ + amount, !.disputes = @ \cup {transaction}]

\* the outcome of an arm that can reach unreachable!()
Done(a) == [acct |-> a, panicked |-> FALSE]

Unreachable(a) == [acct |-> a, panicked |-> TRUE]

ResolveArmDisputeKept(a, transaction) ==
  IF a.locked THEN Done(a)
  ELSE IF transaction \notin a.disputes THEN Done(a)
  ELSE IF transaction \notin DOMAIN a.transaction_amounts THEN Done(a)
  ELSE LET kind == a.transaction_amounts[transaction].kind
           amount == a.transaction_amounts[transaction].amount
           held == Sub(a.held, amount)
       IN  IF ~held.some THEN Unreachable(a)
           ELSE IF kind = "Deposit"
           THEN Done([a EXCEPT !.held = held.val,
                               !.available = @ + amount,
                               !.transaction_amounts = Remove(@, transaction)])
           ELSE Done([a EXCEPT !.held = held.val,
                               !.transaction_amounts = Remove(@, transaction)])

ResolveArmWithdrawalCredited(a, transaction) ==
  IF a.locked THEN Done(a)
  ELSE IF transaction \notin a.disputes THEN Done(a)
  ELSE IF transaction \notin DOMAIN a.transaction_amounts THEN Done(a)
  ELSE LET amount == a.transaction_amounts[transaction].amount
           held == Sub(a.held, amount)
       IN  IF ~held.some THEN Unreachable(a)
           ELSE Done([a EXCEPT !.held = held.val,
                               !.available = @ + amount,
                               !.transaction_amounts = Remove(@, transaction),
                               !.disputes = @ \ {transaction}])

\* Action::Resolve arm
ResolveArm(a, transaction) ==
  IF a.locked THEN Done(a)
  ELSE IF transaction \notin a.disputes THEN Done(a)
  ELSE IF transaction \notin DOMAIN a.transaction_amounts THEN Done(a)
  ELSE LET kind == a.transaction_amounts[transaction].kind
           amount == a.transaction_amounts[transaction].amount
           held == Sub(a.held, amount)
       IN  IF ~held.some THEN Unreachable(a)
           ELSE IF kind = "Deposit"
           THEN Done([a EXCEPT !.held = held.val,
                               !.available = @ + amount,
                               !.transaction_amounts = Remove(@, transaction),
                               !.disputes = @ \ {transaction}])
           ELSE Done([a EXCEPT !.held = held.val,
                               !.transaction_amounts = Remove(@, transaction),
                               !.disputes = @ \ {transaction}])

ChargebackArmWithdrawalForfeited(a, transaction) ==
  IF a.locked THEN Done(a)
  ELSE IF transaction \notin a.disputes THEN Done(a)
  ELSE IF transaction \notin DOMAIN a.transaction_amounts THEN Done(a)
  ELSE LET amount == a.transaction_amounts[transaction].amount
           held == Sub(a.held, amount)
       IN  IF ~held.some THEN Unreachable(a)
           ELSE Done([a EXCEPT !.held = held.val,
                               !.disputes = @ \ {transaction},
                               !.locked = TRUE])

ChargebackArmRemoves(a, transaction) ==
  IF a.locked THEN Done(a)
  ELSE IF transaction \notin a.disputes THEN Done(a)
  ELSE IF transaction \notin DOMAIN a.transaction_amounts THEN Done(a)
  ELSE LET kind == a.transaction_amounts[transaction].kind
           amount == a.transaction_amounts[transaction].amount
           held == Sub(a.held, amount)
       IN  IF ~held.some THEN Unreachable(a)
           ELSE IF kind = "Deposit"
           THEN Done([a EXCEPT !.held = held.val,
                               !.transaction_amounts = Remove(@, transaction),
                               !.disputes = @ \ {transaction},
                               !.locked = TRUE])
           ELSE Done([a EXCEPT !.held = held.val,
                               !.available = @ + amount,
                               !.transaction_amounts = Remove(@, transaction),
                               !.disputes = @ \ {transaction},
                               !.locked = TRUE])

ChargebackArmHeldKept(a, transaction) ==
  IF a.locked THEN Done(a)
  ELSE IF transaction \notin a.disputes THEN Done(a)
  ELSE IF transaction \notin DOMAIN a.transaction_amounts THEN Done(a)
  ELSE LET kind == a.transaction_amounts[transaction].kind
           amount == a.transaction_amounts[transaction].amount
           held == Sub(a.held, amount)
       IN  IF ~held.some THEN Unreachable(a)
           ELSE IF kind = "Deposit"
           THEN Done([a EXCEPT !.disputes = @ \ {transaction},
                               !.locked = TRUE])
           ELSE Done([a EXCEPT !.available = @ + amount,
                               !.disputes = @ \ {transaction},
                               !.locked = TRUE])

ChargebackArmNotLocked(a, transaction) ==
  IF a.locked THEN Done(a)
  ELSE IF transaction \notin a.disputes THEN Done(a)
  ELSE IF transaction \notin DOMAIN a.transaction_amounts THEN Done(a)
  ELSE LET kind == a.transaction_amounts[transaction].kind
           amount == a.transaction_amounts[transaction].amount
           held == Sub(a.held, amount)
       IN  IF ~held.some THEN Unreachable(a)
           ELSE IF kind = "Deposit"
           THEN Done([a EXCEPT !.held = held.val,
                               !.disputes = @ \ {transaction}])
           ELSE Done([a EXCEPT !.held = held.val,
                               !.available = @ + amount,
                               !.disputes = @ \ {transaction}])

\* Action::Chargeback arm
ChargebackArm(a, transaction) ==
  IF a.locked THEN Done(a)
  ELSE IF transaction \notin a.disputes THEN Done(a)
  ELSE IF transaction \notin DOMAIN a.transaction_amounts THEN Done(a)
  ELSE LET kind == a.transaction_amounts[transaction].kind
           amount == a.transaction_amounts[transaction].amount
           held == Sub(a.held, amount)
       IN  IF ~held.some THEN Unreachable(a)
           ELSE IF kind = "Deposit"
           THEN Done([a EXCEPT !.held = held.val,
                               !.disputes = @ \ {transaction},
                               !.locked = TRUE])
           ELSE Done([a EXCEPT !.held = held.val,
                               !.available = @ + amount,
                               !.disputes = @ \ {transaction},
                               !.locked = TRUE])

ProcessGlobalIds(accts, act) ==
  LET m == Entry(accts, act.client)
      a == m[act.client]
      taken == /\ act.type \in {"deposit", "withdrawal"}
               /\ \E d \in DOMAIN accts \ {act.client} :
                    act.transaction \in DOMAIN accts[d].transaction_amounts
      r == CASE taken -> Done(a)
             [] act.type = "deposit" -> Done(DepositArm(a, act.transaction, act.amount))
             [] act.type = "withdrawal" -> Done(WithdrawalArm(a, act.transaction, act.amount))
             [] act.type = "dispute" -> Done(DisputeArm(a, act.transaction))
             [] act.type = "resolve" -> ResolveArm(a, act.transaction)
             [] act.type = "chargeback" -> ChargebackArm(a, act.transaction)
  IN  [accounts |-> [m EXCEPT ![act.client] = r.acct], panicked |-> r.panicked]

\* AccountStates::process
Process(accts, act) ==
  LET m == Entry(accts, act.client)
      a == m[act.client]
      r == CASE act.type = "deposit" -> Done(DepositArm(a, act.transaction, act.amount))
             [] act.type = "withdrawal" -> Done(WithdrawalArm(a, act.transaction, act.amount))
             [] act.type = "dispute" -> Done(DisputeArm(a, act.transaction))
             [] act.type = "resolve" -> ResolveArm(a, act.transaction)
             [] act.type = "chargeback" -> ChargebackArm(a, act.transaction)
  IN  [accounts |-> [m EXCEPT ![act.client] = r.acct], panicked |-> r.panicked]

----
(* lib.rs: AccountStates::summary *)

Min(S) == CHOOSE x \in S : \A y \in S : x <= y

\* BTreeMap::iter: the keys in ascending order
RECURSIVE BTreeKeys(_)
BTreeKeys(S) == IF S = {} THEN <<>> ELSE <<Min(S)>> \o BTreeKeys(S \ {Min(S)})

SummaryRow(accts, client) ==
  [client |-> client, locked |-> accts[client].locked,
   available |-> accts[client].available, held |-> accts[client].held,
   total |-> accts[client].available + accts[client].held]

summaryInArrivalOrder(accts) ==
  [i \in 1..Len(arrival) |-> SummaryRow(accts, arrival[i])]

summarySkipsIdle(accts) ==
  LET keys == BTreeKeys({c \in DOMAIN accts : accts[c] # DefaultAccount}) IN
  [i \in 1..Len(keys) |-> SummaryRow(accts, keys[i])]

summary(accts) ==
  LET keys == BTreeKeys(DOMAIN accts) IN
  [i \in 1..Len(keys) |-> SummaryRow(accts, keys[i])]

\* impl Serialize for AccountSummary / Balance: one line of the output
Serialize(row) ==
  [client |-> row.client, locked |-> row.locked, available |-> Display(row.available),
   held |-> Display(row.held), total |-> Display(row.total)]

----
(* lib.rs / main.rs: the run of summaries_from_csv and main *)

NoResult == [ok |-> FALSE, rows |-> <<>>, pending |-> TRUE]

Recorded(accts, client) ==
  IF client \in DOMAIN accts THEN DOMAIN accts[client].transaction_amounts ELSE {}

Disputed(accts, client) ==
  IF client \in DOMAIN accts THEN accts[client].disputes ELSE {}

\* the records of the input that fail to deserialize
BadRecords == {r \in RawRecords : ~Deserialize(r).ok}

\* the actions that the other records deserialize to
Actions(type) ==
  {Deserialize(r).action : r \in {q \in RawRecords : Deserialize(q).ok /\ q.type = type}}

DepositActions == Actions("deposit")

WithdrawalActions == Actions("withdrawal")

DisputeActions == Actions("dispute")

ResolveActions == Actions("resolve")

ChargebackActions == Actions("chargeback")

\* one iteration of the loop of summaries_from_csv on a record that deserializes
\* to act: states.process(act)
Handle(act) ==
  LET p == Process(accounts, act)
      key == <<act.client, act.transaction>>
  IN  /\ pc = "reading"
      /\ nread < MaxEvents
      /\ accounts' = p.accounts
      /\ action' = act
      /\ pc' = IF p.panicked THEN "panicked" ELSE "reading"
      /\ nread' = nread + 1
      /\ used' = IF /\ act.type \in {"deposit", "withdrawal"}
                    /\ act.transaction \notin Recorded(accounts, act.client)
                    /\ act.transaction \in Recorded(p.accounts, act.client)
                 THEN used \cup {key} ELSE used
      /\ resolved' = IF /\ act.type = "resolve"
                        /\ act.transaction \in Disputed(accounts, act.client)
                        /\ act.transaction \notin Disputed(p.accounts, act.client)
                     THEN resolved \cup {key} ELSE resolved
      /\ arrival' = IF act.client \in DOMAIN accounts THEN arrival
                    ELSE Append(arrival, act.client)
      \* the sum of the amounts of the deposits recorded for each client
      /\ deposited' = IF /\ act.type = "deposit"
                         /\ act.transaction \notin Recorded(accounts, act.client)
                         /\ act.transaction \in Recorded(p.accounts, act.client)
                      THEN [deposited EXCEPT ![act.client] = @ + act.amount]
                      ELSE deposited
      /\ UNCHANGED <<result, output>>
      /\ UNCHANGED amountVars

Deposit == \E act \in DepositActions : Handle(act)

Withdrawal == \E act \in WithdrawalActions : Handle(act)

Dispute == \E act \in DisputeActions : Handle(act)

Resolve == \E act \in ResolveActions : Handle(act)

Chargeback == \E act \in ChargebackActions : Handle(act)

ParseFailPartial ==
  /\ pc = "reading"
  /\ nread < MaxEvents
  /\ BadRecords # {}
  /\ action' = ParseError
  /\ result' = [ok |-> TRUE, rows |-> summary(accounts), pending |-> FALSE]
  /\ pc' = "returned"
  /\ UNCHANGED <<accounts, output, nread, used, resolved, arrival, deposited>>
  /\ UNCHANGED amountVars

\* the next record is one that fails to deserialize: the ? operator returns the error
ParseFail ==
  /\ pc = "reading"
  /\ nread < MaxEvents
  /\ BadRecords # {}
  /\ action' = ParseError
  /\ result' = [ok |-> FALSE, rows |-> <<>>, pending |-> FALSE]
  /\ pc' = "failed"
  /\ UNCHANGED <<accounts, output, nread, used, resolved, arrival, deposited>>
  /\ UNCHANGED amountVars

\* end of input: Ok(states.summary())
EndOfInput ==
  /\ pc = "reading"
  /\ action' = NoAction
  /\ result' = [ok |-> TRUE, rows |-> summary(accounts), pending |-> FALSE]
  /\ pc' = "returned"
  /\ UNCHANGED <<accounts, output, nread, used, resolved, arrival, deposited>>
  /\ UNCHANGED amountVars

\* main: write_summary_io_csv(&summaries, stdout)
WriteSummary ==
  /\ pc = "returned"
  /\ output' = [i \in 1..Len(result.rows) |-> Serialize(result.rows[i])]
  /\ pc' = "written"
  /\ UNCHANGED <<accounts, action, result, nread, used, resolved, arrival, deposited>>
  /\ UNCHANGED amountVars

\* main: eprintln!("error while parsing csv") and return
ReportError ==
  /\ pc = "failed"
  /\ pc' = "exited"
  /\ UNCHANGED <<accounts, action, result, output, nread, used, resolved, arrival, deposited>>
  /\ UNCHANGED amountVars

Init ==
  /\ accounts = EmptyMap
  /\ action = NoAction
  /\ pc = "reading"
  /\ result = NoResult
  /\ output = <<>>
  /\ nread = 0
  /\ used = {}
  /\ resolved = {}
  /\ arrival = <<>>
  /\ deposited = [c \in ClientIds |-> 0]
  /\ input = <<>>
  /\ parsed = DecimalError
  /\ rendered = <<>>
  /\ ppc = "idle"

Next ==
  \/ Deposit
  \/ Withdrawal
  \/ Dispute
  \/ Resolve
  \/ Chargeback
  \/ ParseFail
  \/ EndOfInput
  \/ WriteSummary
  \/ ReportError

Spec == Init /\ [][Next]_vars

----
(* The amount type on its own: parse a string, then render the value *)

Alphabet == {"0", "7", ".", " ", "x"}

Strings(chars, n) == UNION {[1..k -> chars] : k \in 0..n}

\* every short string, the longer well-formed amounts, and these amounts
\* followed by a second point
InputStrings ==
  Strings(Alphabet, MaxLen)
    \cup {lead \o int \o <<".">> \o frac \o point \o trail :
            lead \in Strings({" "}, 1), trail \in Strings({" "}, 1),
            int \in Strings({"0", "7"}, MaxIntegral) \ {<<>>},
            frac \in Strings({"0", "7"}, MaxFraction),
            point \in Strings({"."}, 1)}

ParseAmount ==
  /\ ppc = "start"
  /\ parsed' = FromStr(input)
  /\ ppc' = "parsed"
  /\ UNCHANGED <<input, rendered>>
  /\ UNCHANGED ledgerVars

RenderAmount ==
  /\ ppc = "parsed"
  /\ parsed.ok
  /\ rendered' = Display(parsed.val)
  /\ ppc' = "rendered"
  /\ UNCHANGED <<input, parsed>>
  /\ UNCHANGED ledgerVars

AmountInit ==
  /\ input \in InputStrings
  /\ parsed = DecimalError
  /\ rendered = <<>>
  /\ ppc = "start"
  /\ accounts = EmptyMap
  /\ action = NoAction
  /\ pc = "idle"
  /\ result = NoResult
  /\ output = <<>>
  /\ nread = 0
  /\ used = {}
  /\ resolved = {}
  /\ arrival = <<>>
  /\ deposited = [c \in ClientIds |-> 0]

AmountNext == ParseAmount \/ RenderAmount

AmountSpec == AmountInit /\ [][AmountNext]_vars

----
(* Properties of the ledger, checked under Spec *)

AccountOf(accts, client) ==
  IF client \in DOMAIN accts THEN accts[client] ELSE DefaultAccount

\* a step that applied an event (a record that deserialized)
Applied == nread' = nread + 1

StrictlyAscending(rows) ==
  \A i \in 1..Len(rows) : \A j \in 1..Len(rows) : i < j => rows[i].client < rows[j].client

\* C1: after any sequence of events every account has available >= 0 and
\* held >= 0; no transition drives a balance below zero.
C1_BalancesNonNegative ==
  \A c \in DOMAIN accounts : accounts[c].available >= 0 /\ accounts[c].held >= 0

\* a withdrawal larger than the available funds has been refused
C1_Witness ==
  /\ action.type = "withdrawal"
  /\ ~accounts[action.client].locked
  /\ action.transaction \notin Recorded(accounts, action.client)
  /\ accounts[action.client].available > 0
  /\ action.amount > accounts[action.client].available

\* C2: once an account is locked, every later event of any kind leaves its
\* available, held, locked, transactions and disputes unchanged, and locked
\* never returns to false.
C2_FrozenIsTerminal ==
  [][\A c \in DOMAIN accounts :
       accounts[c].locked => accounts'[c] = accounts[c] /\ accounts'[c].locked]_vars

\* a deposit with a fresh transaction id has been applied to a locked account
C2_Witness ==
  /\ action.type = "deposit"
  /\ accounts[action.client].locked
  /\ action.transaction \notin Recorded(accounts, action.client)
  /\ action.amount > 0

\* C3: a Deposit or Withdrawal whose transaction id an earlier accepted
\* Deposit or Withdrawal of the same client has used changes neither
\* available nor held.
C3_ReplayChangesNoBalance ==
  [][(/\ Applied
      /\ action'.type \in {"deposit", "withdrawal"}
      /\ <<action'.client, action'.transaction>> \in used)
       => /\ accounts'[action'.client].available = accounts[action'.client].available
          /\ accounts'[action'.client].held = accounts[action'.client].held]_vars

\* C4: Resolve and Chargeback of a disputed transaction on an unlocked account
\* always find held at least the recorded amount; unreachable!() never runs.
C4_HeldSufficient ==
  /\ pc # "panicked"
  /\ \A c \in DOMAIN accounts :
       ~accounts[c].locked =>
         \A t \in accounts[c].disputes :
           t \in DOMAIN accounts[c].transaction_amounts
             => accounts[c].held >= accounts[c].transaction_amounts[t].amount

\* a dispute has been resolved while another dispute of the client stays open
C4_Witness ==
  /\ action.type = "resolve"
  /\ <<action.client, action.transaction>> \in resolved
  /\ action.transaction \notin Recorded(accounts, action.client)
  /\ accounts[action.client].disputes # {}
  /\ accounts[action.client].held > 0

\* C5: every transaction id in disputes is a key of transactions, so Resolve
\* and Chargeback never miss the transaction of a disputed id.
C5_DisputesAreRecorded ==
  \A c \in DOMAIN accounts :
    accounts[c].disputes \subseteq DOMAIN accounts[c].transaction_amounts

\* a chargeback has closed one dispute while another one is left open
C5_Witness ==
  /\ action.type = "chargeback"
  /\ accounts[action.client].locked
  /\ action.transaction \in Recorded(accounts, action.client)
  /\ action.transaction \notin accounts[action.client].disputes
  /\ accounts[action.client].disputes # {}

\* C6: once a dispute on a transaction has been resolved, every later Dispute
\* of that client and transaction id changes neither available nor held and
\* does not put the id into disputes, whatever happened in between.
C6_ResolvedDisputeIgnored ==
  [][(/\ Applied
      /\ action'.type = "dispute"
      /\ <<action'.client, action'.transaction>> \in resolved)
       => /\ accounts'[action'.client].available = accounts[action'.client].available
          /\ accounts'[action'.client].held = accounts[action'.client].held
          /\ action'.transaction \notin accounts'[action'.client].disputes]_vars

\* C7: the rows of the summary are strictly ascending by client id, whatever
\* the order in which the clients first appear in the input.
C7_SummaryAscending ==
  /\ StrictlyAscending(summary(accounts))
  /\ StrictlyAscending(result.rows)

\* a summary of two clients has been returned and the larger id came first
C7_Witness ==
  /\ pc = "returned"
  /\ Len(arrival) >= 2
  /\ arrival[1] > arrival[2]
  /\ Len(result.rows) = Len(arrival)

\* C8: a Dispute of a transaction id that is not a key of the client's
\* transactions changes nothing of the account and raises no fault.
C8_UnknownDisputeIsNoOp ==
  [][(/\ Applied
      /\ action'.type = "dispute"
      /\ action'.transaction \notin Recorded(accounts, action'.client))
       => /\ accounts'[action'.client] = AccountOf(accounts, action'.client)
          /\ pc' = "reading"]_vars

\* a Dispute of an unrecorded id has been applied to an account with funds
\* and with another transaction on record
C8_Witness ==
  /\ action.type = "dispute"
  /\ action.transaction \notin Recorded(accounts, action.client)
  /\ Recorded(accounts, action.client) # {}
  /\ accounts[action.client].available > 0
  /\ ~accounts[action.client].locked

\* C9: when a record fails to parse, summaries_from_csv returns an error and
\* no rows, and nothing is written to the output.
C9_NoPartialSummary ==
  action = ParseError =>
    /\ pc \in {"failed", "exited"}
    /\ ~result.ok
    /\ result.rows = <<>>
    /\ output = <<>>

\* the run has ended on a bad record after records that changed an account
C9_Witness ==
  /\ pc = "exited"
  /\ action = ParseError
  /\ \E c \in DOMAIN accounts : accounts[c].available > 0
  /\ output = <<>>

\* the account named by the event of a step, before and after the step
Pre == AccountOf(accounts, action'.client)

Post == accounts'[action'.client]

AppliedTo(type) == Applied /\ action'.type = type

\* post records tx as kind(amount) and every other entry as pre does
RecordedAs(pre, post, tx, kind, amount) ==
  /\ DOMAIN post.transaction_amounts = DOMAIN pre.transaction_amounts \cup {tx}
  /\ post.transaction_amounts[tx] = [kind |-> kind, amount |-> amount]
  /\ \A u \in DOMAIN pre.transaction_amounts \ {tx} :
       post.transaction_amounts[u] = pre.transaction_amounts[u]

\* post has lost the entry of tx and keeps every other entry of pre
Forgotten(pre, post, tx) ==
  /\ DOMAIN post.transaction_amounts = DOMAIN pre.transaction_amounts \ {tx}
  /\ \A u \in DOMAIN post.transaction_amounts :
       post.transaction_amounts[u] = pre.transaction_amounts[u]

\* C12: on an unlocked account a Withdrawal with an unrecorded id succeeds
\* exactly when available >= amount: then available drops by the amount, the
\* id is recorded as Withdrawal(amount) and held, locked, disputes are kept;
\* otherwise nothing changes, the id is not recorded and a later Deposit of
\* the same id is accepted.
C12_WithdrawalExact ==
  [][(/\ AppliedTo("withdrawal")
      /\ ~Pre.locked
      /\ action'.transaction \notin DOMAIN Pre.transaction_amounts)
       => IF Pre.available >= action'.amount
          THEN /\ Post.available = Pre.available - action'.amount
               /\ RecordedAs(Pre, Post, action'.transaction, "Withdrawal", action'.amount)
               /\ Post.held = Pre.held
               /\ Post.locked = Pre.locked
               /\ Post.disputes = Pre.disputes
          ELSE /\ Post = Pre
               /\ action'.transaction \notin DOMAIN Post.transaction_amounts
               /\ \A d \in DepositActions :
                    (d.client = action'.client /\ d.transaction = action'.transaction)
                      => d.transaction \in Recorded(Process(accounts', d).accounts, d.client)]_vars

\* a withdrawal above the available funds has been refused while funds of the
\* client are held
C12_Witness ==
  /\ action.type = "withdrawal"
  /\ ~accounts[action.client].locked
  /\ action.transaction \notin Recorded(accounts, action.client)
  /\ action.amount > accounts[action.client].available
  /\ accounts[action.client].held > 0

\* C13: on an unlocked account a Deposit or Withdrawal whose id is recorded
\* is dropped with no change to any field; a Deposit whose id is not recorded
\* adds its amount to available, records Deposit(amount) and keeps held,
\* locked and disputes.
C13_DuplicateDroppedDepositExact ==
  [][/\ (/\ Applied
         /\ action'.type \in {"deposit", "withdrawal"}
         /\ ~Pre.locked
         /\ action'.transaction \in DOMAIN Pre.transaction_amounts)
          => Post = Pre
     /\ (/\ AppliedTo("deposit")
         /\ ~Pre.locked
         /\ action'.transaction \notin DOMAIN Pre.transaction_amounts)
          => /\ Post.available = Pre.available + action'.amount
             /\ RecordedAs(Pre, Post, action'.transaction, "Deposit", action'.amount)
             /\ Post.held = Pre.held
             /\ Post.locked = Pre.locked
             /\ Post.disputes = Pre.disputes]_vars

\* a deposit has been dropped because its id is on record as something else
C13_Witness ==
  /\ action.type = "deposit"
  /\ ~accounts[action.client].locked
  /\ action.transaction \in Recorded(accounts, action.client)
  /\ accounts[action.client].transaction_amounts[action.transaction]
       # [kind |-> "Deposit", amount |-> action.amount]

C15_WithdrawalDisputeExact ==
  [][/\ (/\ AppliedTo("dispute")
         /\ ~Pre.locked
         /\ action'.transaction \in DOMAIN Pre.transaction_amounts
         /\ Pre.transaction_amounts[action'.transaction].kind = "Withdrawal"
         /\ action'.transaction \notin Pre.disputes)
          => /\ Post.held = Pre.held + Pre.transaction_amounts[action'.transaction].amount
             /\ Post.available = Pre.available
             /\ Post.disputes = Pre.disputes \cup {action'.transaction}
             /\ Post.transaction_amounts = Pre.transaction_amounts
             /\ Post.locked = Pre.locked
     /\ (/\ AppliedTo("dispute")
         /\ ~Pre.locked
         /\ action'.transaction \in Pre.disputes)
          => Post = Pre]_vars

\* a withdrawal larger than what is left available is under dispute and its
\* amount is held once
C15_Witness ==
  /\ action.type = "dispute"
  /\ ~accounts[action.client].locked
  /\ action.transaction \in accounts[action.client].disputes
  /\ accounts[action.client].transaction_amounts[action.transaction].kind = "Withdrawal"
  /\ accounts[action.client].available
       < accounts[action.client].transaction_amounts[action.transaction].amount
  /\ accounts[action.client].held
       = accounts[action.client].transaction_amounts[action.transaction].amount

\* C16: Resolve on an unlocked account changes nothing unless the id is in
\* disputes; then held drops by the amount A, available rises by A for a
\* Deposit and stays for a Withdrawal, the id leaves transactions and
\* disputes and locked stays false; a Resolve right after the Dispute gives
\* back the balances from before the Dispute.
C16_ResolveExact ==
  [][/\ (AppliedTo("resolve") /\ ~Pre.locked /\ action'.transaction \notin Pre.disputes)
          => Post = Pre
     /\ (AppliedTo("resolve") /\ ~Pre.locked /\ action'.transaction \in Pre.disputes)
          => /\ action'.transaction \in DOMAIN Pre.transaction_amounts
             /\ LET kind == Pre.transaction_amounts[action'.transaction].kind
                    A == Pre.transaction_amounts[action'.transaction].amount
                IN  /\ Post.held = Pre.held - A
                    /\ Post.available = IF kind = "Deposit" THEN Pre.available + A
                                        ELSE Pre.available
             /\ Forgotten(Pre, Post, action'.transaction)
             /\ Post.disputes = Pre.disputes \ {action'.transaction}
             /\ ~Post.locked
     /\ (/\ AppliedTo("dispute")
         /\ action'.transaction \notin Pre.disputes
         /\ action'.transaction \in Post.disputes)
          => LET back == ResolveArm(Post, action'.transaction).acct IN
             /\ back.available = Pre.available
             /\ back.held = Pre.held
             /\ back.disputes = Pre.disputes]_vars

\* the only dispute of an account has been resolved: nothing is held any
\* more and the funds are available
C16_Witness ==
  /\ action.type = "resolve"
  /\ <<action.client, action.transaction>> \in resolved
  /\ action.transaction \notin Recorded(accounts, action.client)
  /\ ~accounts[action.client].locked
  /\ accounts[action.client].disputes = {}
  /\ accounts[action.client].held = 0
  /\ accounts[action.client].available > 0

\* C17: Chargeback on an unlocked account changes nothing unless the id is in
\* disputes (also for a recorded, undisputed id); then held drops by the
\* amount A, available stays for a Deposit and rises by A for a Withdrawal,
\* the id leaves disputes and locked becomes true.  Nothing else sets locked.
C17_ChargebackExact ==
  [][/\ (AppliedTo("chargeback") /\ ~Pre.locked /\ action'.transaction \notin Pre.disputes)
          => Post = Pre
     /\ (AppliedTo("chargeback") /\ ~Pre.locked /\ action'.transaction \in Pre.disputes)
          => /\ action'.transaction \in DOMAIN Pre.transaction_amounts
             /\ LET kind == Pre.transaction_amounts[action'.transaction].kind
                    A == Pre.transaction_amounts[action'.transaction].amount
                IN  /\ Post.held = Pre.held - A
                    /\ Post.available = IF kind = "Withdrawal" THEN Pre.available + A
                                        ELSE Pre.available
             /\ Post.disputes = Pre.disputes \ {action'.transaction}
             /\ Post.locked
     /\ \A c \in DOMAIN accounts' :
          (accounts'[c].locked /\ ~AccountOf(accounts, c).locked)
            => /\ AppliedTo("chargeback")
               /\ action'.client = c
               /\ action'.transaction \in AccountOf(accounts, c).disputes]_vars

\* the chargeback of a withdrawal has locked the account and given the
\* withdrawn amount back
C17_Witness ==
  /\ action.type = "chargeback"
  /\ accounts[action.client].locked
  /\ action.transaction \in Recorded(accounts, action.client)
  /\ accounts[action.client].transaction_amounts[action.transaction].kind = "Withdrawal"
  /\ action.transaction \notin accounts[action.client].disputes
  /\ accounts[action.client].held = 0
  /\ accounts[action.client].available
       >= accounts[action.client].transaction_amounts[action.transaction].amount

\* C18 as stated: no event removes a client from the account map and no
\* event removes a transaction id from an account's transactions.
C18_OnlyGrow ==
  [][/\ DOMAIN accounts \subseteq DOMAIN accounts'
     /\ \A c \in DOMAIN accounts :
          DOMAIN accounts[c].transaction_amounts
            \subseteq DOMAIN accounts'[c].transaction_amounts]_vars

\* C18 as amended: no event removes a client from the account map, and a
\* transaction id leaves an account's transactions only by a Resolve of that
\* client for that id while it is in disputes.
C18_OnlyResolveForgets ==
  [][/\ DOMAIN accounts \subseteq DOMAIN accounts'
     /\ \A c \in DOMAIN accounts :
          \A t \in DOMAIN accounts[c].transaction_amounts
                     \ DOMAIN accounts'[c].transaction_amounts :
            /\ AppliedTo("resolve")
            /\ action'.client = c
            /\ action'.transaction = t
            /\ t \in accounts[c].disputes
            /\ ~accounts[c].locked]_vars

\* a Resolve has taken an id out of the transactions of an account that still
\* has another transaction on record, and a second account exists
C18_Witness ==
  /\ action.type = "resolve"
  /\ <<action.client, action.transaction>> \in resolved
  /\ action.transaction \notin Recorded(accounts, action.client)
  /\ Recorded(accounts, action.client) # {}
  /\ Cardinality(DOMAIN accounts) = 2

\* the clients named by the events read so far
Named == {arrival[i] : i \in 1..Len(arrival)}

\* C19: the summary has exactly one row for every client named by an event,
\* also for a client whose every event was ignored (zero balances, unlocked);
\* each row carries the account's locked, available and held, and
\* total = available + held.
C19_SummaryRows ==
  LET rows == IF result.ok THEN result.rows ELSE summary(accounts) IN
  /\ {rows[i].client : i \in 1..Len(rows)} = Named
  /\ Len(rows) = Cardinality(Named)
  /\ \A i \in 1..Len(rows) :
       /\ rows[i].client \in DOMAIN accounts
       /\ rows[i].locked = accounts[rows[i].client].locked
       /\ rows[i].available = accounts[rows[i].client].available
       /\ rows[i].held = accounts[rows[i].client].held
       /\ rows[i].total = rows[i].available + rows[i].held
  /\ pc = "written" =>
       /\ Len(output) = Len(rows)
       /\ \A i \in 1..Len(rows) : output[i] = Serialize(rows[i])

\* a summary has been returned with a row of zeros for a client whose events
\* were all ignored and a row with funds for another client
C19_Witness ==
  /\ pc = "returned"
  /\ \E i \in 1..Len(result.rows) :
       /\ result.rows[i].available = 0
       /\ result.rows[i].held = 0
       /\ result.rows[i].total = 0
       /\ ~result.rows[i].locked
       /\ accounts[result.rows[i].client] = DefaultAccount
       /\ \A t \in TransactionIds : <<result.rows[i].client, t>> \notin used
  /\ \E i \in 1..Len(result.rows) :
       result.rows[i].held > 0 /\ result.rows[i].available > 0

RECURSIVE SumOfAmounts(_, _)
SumOfAmounts(a, ids) ==
  IF ids = {} THEN 0
  ELSE LET t == CHOOSE t \in ids : TRUE IN
       a.transaction_amounts[t].amount + SumOfAmounts(a, ids \ {t})

\* C20: in every reachable state of every account, locked or not, held is
\* the sum of the recorded amounts of the ids in disputes; held = 0 when
\* disputes is empty.
C20_HeldIsSumOfDisputes ==
  \A c \in DOMAIN accounts :
    /\ accounts[c].disputes \subseteq DOMAIN accounts[c].transaction_amounts
    /\ accounts[c].held = SumOfAmounts(accounts[c], accounts[c].disputes)
    /\ accounts[c].disputes = {} => accounts[c].held = 0

\* a chargeback has locked an account whose other dispute, of a different
\* amount, stays open
C20_Witness ==
  \E c \in DOMAIN accounts :
    /\ accounts[c].locked
    /\ Cardinality(accounts[c].disputes) = 1
    /\ Cardinality(DOMAIN accounts[c].transaction_amounts) = 2
    /\ accounts[c].held > 0
    /\ \E t \in accounts[c].disputes :
         \E u \in DOMAIN accounts[c].transaction_amounts :
           accounts[c].transaction_amounts[u].amount
             # accounts[c].transaction_amounts[t].amount

\* the account map with every client but this one left out
Only(accts, client) == [x \in DOMAIN accts \cap {client} |-> accts[x]]

\* C21: an event that names client c leaves every other client's account
\* unchanged, and what it does to c's account depends on c's account alone:
\* an id recorded under another client is still recorded afresh under c, and
\* a Dispute, Resolve or Chargeback by c of an id that c has not recorded
\* changes neither account.
C21_ClientIsolation ==
  [][Applied =>
       LET c == action'.client
           t == action'.transaction
       IN  /\ DOMAIN accounts' = DOMAIN accounts \cup {c}
           /\ \A d \in DOMAIN accounts \ {c} : accounts'[d] = accounts[d]
           /\ Post = Process(Only(accounts, c), action').accounts[c]
           /\ (/\ action'.type \in {"deposit", "withdrawal"}
               /\ ~Pre.locked
               /\ t \notin DOMAIN Pre.transaction_amounts
               /\ action'.type = "withdrawal" => action'.amount <= Pre.available)
                => RecordedAs(Pre, Post, t,
                              IF action'.type = "deposit" THEN "Deposit" ELSE "Withdrawal",
                              action'.amount)
           /\ (/\ action'.type \in {"dispute", "resolve", "chargeback"}
               /\ t \notin DOMAIN Pre.transaction_amounts)
                => Post = Pre]_vars

\* one transaction id is on record under both clients with different amounts,
\* and a Dispute by one client of an id that only the other client has
\* recorded has been applied
C21_Witness ==
  /\ action.type = "dispute"
  /\ action.transaction \notin Recorded(accounts, action.client)
  /\ accounts[action.client].disputes = {}
  /\ accounts[action.client].held = 0
  /\ \E d \in DOMAIN accounts \ {action.client} :
       /\ action.transaction \in Recorded(accounts, d)
       /\ accounts[d].disputes = {}
       /\ \E u \in Recorded(accounts, d) \cap Recorded(accounts, action.client) :
            accounts[d].transaction_amounts[u].amount
              # accounts[action.client].transaction_amounts[u].amount

\* C22: for every account available + held is at most the sum of the
\* amounts of the Deposit events accepted (recorded) for that client.
C22_NoMoneyCreated ==
  \A c \in DOMAIN accounts :
    accounts[c].available + accounts[c].held <= deposited[c]

\* the chargeback of a disputed withdrawal has raised available back to the
\* whole of what the client deposited
C22_Witness ==
  /\ action.type = "chargeback"
  /\ accounts[action.client].locked
  /\ action.transaction \in Recorded(accounts, action.client)
  /\ accounts[action.client].transaction_amounts[action.transaction].kind = "Withdrawal"
  /\ action.transaction \notin accounts[action.client].disputes
  /\ accounts[action.client].held = 0
  /\ accounts[action.client].available = deposited[action.client]
  /\ deposited[action.client] > 0

----
(* Properties of the amount type, checked under AmountSpec *)

\* the ways to read s as whitespace, digits, an optional point and digits,
\* whitespace: <<first digit, position of the point or one past the end, last>>
ValidSplits(s) ==
  {sp \in (1..Len(s)) \X (1..(Len(s) + 1)) \X (1..Len(s)) :
     /\ \A k \in 1..(sp[1] - 1) : s[k] \in Whitespace
     /\ \A k \in (sp[3] + 1)..Len(s) : s[k] \in Whitespace
     /\ sp[1] < sp[2]
     /\ sp[2] <= sp[3] + 1
     /\ \A k \in sp[1]..(sp[2] - 1) : s[k] \in DigitSet
     /\ sp[2] <= sp[3] => s[sp[2]] = "."
     /\ \A k \in (sp[2] + 1)..sp[3] : s[k] \in DigitSet}

IsValidAmount(s) == ValidSplits(s) # {}

FractionDigits(s) ==
  LET sp == CHOOSE sp \in ValidSplits(s) : TRUE IN SubSeq(s, sp[2] + 1, sp[3])

IntegralDigits(s) ==
  LET sp == CHOOSE sp \in ValidSplits(s) : TRUE IN SubSeq(s, sp[1], sp[2] - 1)

\* the first four digits of f, right-padded with zeros
FourDigits(f) == [i \in 1..4 |-> IF i <= Len(f) THEN f[i] ELSE "0"]

Canonical(s) == StripZeros(IntegralDigits(s)) \o <<".">> \o FourDigits(FractionDigits(s))

\* C10: a valid amount string parses, and rendering the parsed value gives
\* the integral part, a point and the first four fractional digits of the
\* string right-padded with zeros (truncated, never rounded).
C10_CanonicalRendering ==
  IsValidAmount(input) =>
    /\ ppc \in {"parsed", "rendered"} => parsed.ok
    /\ ppc = "rendered" => rendered = Canonical(input)

\* an amount with a fifth fractional digit of 7 has been parsed and rendered
C10_Witness ==
  /\ ppc = "rendered"
  /\ IsValidAmount(input)
  /\ Len(FractionDigits(input)) > 4
  /\ FractionDigits(input)[5] = "7"
  /\ FractionDigits(input)[4] = "0"

\* the string without its leading and trailing whitespace
Core(s) ==
  LET inner == {k \in 1..Len(s) : s[k] \notin Whitespace} IN
  IF inner = {} THEN <<>>
  ELSE LET first == CHOOSE k \in inner : \A m \in inner : k <= m
           last == CHOOSE k \in inner : \A m \in inner : m <= k
       IN  [k \in 1..(last - first + 1) |-> s[first + k - 1]]

Points(s) == {k \in 1..Len(s) : s[k] = "."}

\* a character that is no digit and no point, more than one point, or no
\* digit before the first point or the end
IsMalformed(s) ==
  LET c == Core(s) IN
  \/ \E k \in 1..Len(c) : c[k] \notin DigitSet \cup {"."}
  \/ Cardinality(Points(c)) > 1
  \/ c = <<>>
  \/ c[1] = "."

\* C11: parsing fails for every string that, after trimming, has a character
\* other than a digit or a point, has more than one point, or has an empty
\* integral part; no value is produced for it.
C11_MalformedRejected ==
  (IsMalformed(input) /\ ppc # "start") => (~parsed.ok /\ ppc = "parsed" /\ rendered = <<>>)

\* a string whose second point comes after more than four fractional digits
\* has been refused
C11_Witness ==
  /\ ppc = "parsed"
  /\ ~parsed.ok
  /\ Cardinality(Points(Core(input))) = 2
  /\ \A k \in 1..Len(Core(input)) : Core(input)[k] \in DigitSet \cup {"."}
  /\ \E k \in Points(Core(input)) : k > 1 /\ k + 5 \in Points(Core(input))

====
